---- MODULE Spec2Model ----
(***************************************************************************)
(* A model of the formula engine: FormulaEngine (reference resolution,     *)
(* the evaluator, its function dispatch table, processData) and the        *)
(* ExcelFunctions library (instance methods and static helpers).           *)
(*                                                                         *)
(* JavaScript values are tagged records:                                   *)
(*   [t |-> "num", n, d]   the number n/d (d > 0, lowest terms)            *)
(*   [t |-> "nan"]         NaN                                             *)
(*   [t |-> "str", s]      a string, s a sequence of one-character strings *)
(*   [t |-> "null"], [t |-> "undef"]                                       *)
(*   [t |-> "list", items] an array                                        *)
(*   [t |-> "throw"]       an exception propagating out of a call          *)
(* An object is a record; a property that is absent is a field that is     *)
(* not in the record's DOMAIN.                                             *)
(***************************************************************************)
EXTENDS Integers, Sequences, FiniteSets, TLC

(***************************************************************************)
(* JavaScript values                                                       *)
(***************************************************************************)
Abs(x) == IF x < 0 THEN -x ELSE x

RECURSIVE Gcd(_, _)
Gcd(a, b) == IF b = 0 THEN a ELSE Gcd(b, a % b)

Sign(d) == IF d < 0 THEN -1 ELSE 1

Reduced(n, d, g) == [t |-> "num", n |-> n \div g, d |-> d \div g]

\* the number n/d in lowest terms, d # 0
Rat(n, d) == Reduced(Sign(d) * n, Sign(d) * d, Gcd(Abs(n), Abs(d)))

Num(n) == [t |-> "num", n |-> n, d |-> 1]
NaN == [t |-> "nan"]
Str(s) == [t |-> "str", s |-> s]
Null == [t |-> "null"]
Undefined == [t |-> "undef"]
List(items) == [t |-> "list", items |-> items]
Throw == [t |-> "throw"]

ERROR == Str(<<"#", "E", "R", "R", "O", "R", "!">>)
REF == Str(<<"#", "R", "E", "F", "!">>)
DIV0 == Str(<<"#", "D", "I", "V", "/", "0", "!">>)
CIRCULAR == Str(<<"#", "C", "I", "R", "C", "U", "L", "A", "R", "!">>)

\* typeof v === 'number' (NaN is of type number)
TypeofNumber(v) == v.t \in {"num", "nan"}

NumAdd(a, b) == Rat(a.n * b.d + b.n * a.d, a.d * b.d)
NumSub(a, b) == Rat(a.n * b.d - b.n * a.d, a.d * b.d)
NumMul(a, b) == Rat(a.n * b.n, a.d * b.d)
NumDiv(a, b) == Rat(a.n * b.d, a.d * b.n)
NumLess(a, b) == a.n * b.d < b.n * a.d

RECURSIVE IntPow(_, _)
IntPow(a, k) == IF k = 0 THEN Num(1) ELSE NumMul(a, IntPow(a, k - 1))

\* Math.pow for an integer exponent (no other exponent occurs in the model).
NumPow(a, b) ==
  CASE b.d = 1 /\ b.n >= 0 -> IntPow(a, b.n)
    [] b.d = 1 /\ b.n < 0 /\ a.n # 0 -> NumDiv(Num(1), IntPow(a, -b.n))

(***************************************************************************)
(* Strings                                                                 *)
(***************************************************************************)
UpperLetters == <<"A", "B", "C", "D", "E", "F", "G", "H", "I", "J", "K", "L", "M",
                  "N", "O", "P", "Q", "R", "S", "T", "U", "V", "W", "X", "Y", "Z">>
LowerLetters == <<"a", "b", "c", "d", "e", "f", "g", "h", "i", "j", "k", "l", "m",
                  "n", "o", "p", "q", "r", "s", "t", "u", "v", "w", "x", "y", "z">>
Digits == <<"0", "1", "2", "3", "4", "5", "6", "7", "8", "9">>

IsUpper(c) == \E i \in 1..26 : UpperLetters[i] = c
IsLower(c) == \E i \in 1..26 : LowerLetters[i] = c
IsLetter(c) == IsUpper(c) \/ IsLower(c)
IsDigit(c) == \E i \in 1..10 : Digits[i] = c
DigitValue(c) == (CHOOSE i \in 1..10 : Digits[i] = c) - 1

\* String.prototype.toUpperCase, one character
ToUpperChar(c) == IF IsLower(c) THEN UpperLetters[CHOOSE i \in 1..26 : LowerLetters[i] = c] ELSE c
toUpperCase(s) == [i \in 1..Len(s) |-> ToUpperChar(s[i])]

\* c.charCodeAt(0) - 'A'.charCodeAt(0) for an upper-case letter c
CharCodeMinusA(c) == (CHOOSE i \in 1..26 : UpperLetters[i] = c) - 1

RECURSIVE DigitsValue(_)
DigitsValue(s) ==
  IF s = <<>> THEN 0 ELSE DigitsValue(SubSeq(s, 1, Len(s) - 1)) * 10 + DigitValue(s[Len(s)])

\* parseInt on a string of decimal digits
parseInt(s) == DigitsValue(s)

AllDigits(s) == s # <<>> /\ \A i \in 1..Len(s) : IsDigit(s[i])

RECURSIVE trim(_)
trim(s) ==
  IF s = <<>> THEN s
  ELSE IF s[1] = " " THEN trim(Tail(s))
  ELSE IF s[Len(s)] = " " THEN trim(SubSeq(s, 1, Len(s) - 1))
  ELSE s

\* Number(string): the empty (or blank) string is 0, a signed decimal integer is
\* its value, any other text is NaN.  The strings of the model are integers,
\* formula texts, words and error sentinels.
TrimmedToNumber(u) ==
  IF u = <<>> THEN Num(0)
  ELSE IF u[1] = "-" THEN (IF AllDigits(Tail(u)) THEN Num(-DigitsValue(Tail(u))) ELSE NaN)
  ELSE IF u[1] = "+" THEN (IF AllDigits(Tail(u)) THEN Num(DigitsValue(Tail(u))) ELSE NaN)
  ELSE IF AllDigits(u) THEN Num(DigitsValue(u))
  ELSE NaN

StringToNumber(s) == TrimmedToNumber(trim(s))

RECURSIVE NatToString(_)
NatToString(n) ==
  IF n < 10 THEN <<Digits[n + 1]>> ELSE NatToString(n \div 10) \o <<Digits[(n % 10) + 1]>>

FracDigitsMax == 16

RECURSIVE FracDigits(_, _, _)
FracDigits(r, d, k) ==
  IF r = 0 \/ k = 0 THEN <<>>
  ELSE <<Digits[((r * 10) \div d) + 1]>> \o FracDigits((r * 10) % d, d, k - 1)

\* String(number)
NumberToString(v) ==
  IF v.t = "nan" THEN <<"N", "a", "N">>
  ELSE (IF v.n < 0 THEN <<"-">> ELSE <<>>)
         \o NatToString(Abs(v.n) \div v.d)
         \o (IF v.d = 1 THEN <<>>
             ELSE <<".">> \o FracDigits(Abs(v.n) % v.d, v.d, FracDigitsMax))

RECURSIVE JsString(_)
RECURSIVE Join(_)
\* Array.prototype.join(","): null and undefined elements give the empty string
Join(items) ==
  IF items = <<>> THEN <<>>
  ELSE (IF items[1].t \in {"null", "undef"} THEN <<>> ELSE JsString(items[1]))
         \o (IF Len(items) = 1 THEN <<>> ELSE <<",">> \o Join(Tail(items)))

\* String(v)
JsString(v) ==
  CASE v.t = "str" -> v.s
    [] v.t \in {"num", "nan"} -> NumberToString(v)
    [] v.t = "null" -> <<"n", "u", "l", "l">>
    [] v.t = "undef" -> <<"u", "n", "d", "e", "f", "i", "n", "e", "d">>
    [] v.t = "list" -> Join(v.items)

\* Number(v)
Number(v) ==
  CASE v.t \in {"num", "nan"} -> v
    [] v.t = "str" -> StringToNumber(v.s)
    [] v.t = "null" -> Num(0)
    [] v.t = "undef" -> NaN
    [] v.t = "list" -> StringToNumber(Join(v.items))

\* isNaN(v)
isNaN(v) == Number(v).t = "nan"

\* a + b
\* x + y for two numbers, NaN included
NumberPlus(x, y) == IF x.t = "nan" \/ y.t = "nan" THEN NaN ELSE NumAdd(x, y)

JsAdd(a, b) ==
  IF a.t \in {"str", "list"} \/ b.t \in {"str", "list"}
  THEN Str(JsString(a) \o JsString(b))
  ELSE NumberPlus(Number(a), Number(b))

(***************************************************************************)
(* Workbook access.  A workbook is a sequence of tables, a table a         *)
(* sequence of rows, a row a sequence of cells; JavaScript indices are     *)
(* zero-based.  A cell is a record with the field value and, once          *)
(* processData has visited it, resolved and resolvedValue.                 *)
(***************************************************************************)
\* seq[i] is not undefined
HasIndex(seq, i) == i >= 0 /\ i < Len(seq)
At(seq, i) == seq[i + 1]

\* table?.[row]?.[col] is an object (tableIndex may name no table at all)
CellPresent(data, tableIndex, row, col) ==
  /\ HasIndex(data, tableIndex)
  /\ HasIndex(At(data, tableIndex), row)
  /\ HasIndex(At(At(data, tableIndex), row), col)

CellAt(data, tableIndex, row, col) == At(At(At(data, tableIndex), row), col)

\* cell.resolvedValue !== undefined ? cell.resolvedValue : cell.value
CellContent(cell) ==
  IF "resolvedValue" \in DOMAIN cell /\ cell.resolvedValue # Undefined
  THEN cell.resolvedValue
  ELSE cell.value

(***************************************************************************)
(* Reference Resolver                                                      *)
(***************************************************************************)
RECURSIVE LetterRun(_, _)
\* the end of the longest run of letters of s that starts at position i
LetterRun(s, i) == IF i <= Len(s) /\ IsLetter(s[i]) THEN LetterRun(s, i + 1) ELSE i

RECURSIVE ColumnOf(_, _)
\* for (i...) column = column * 26 + (upperColStr.charCodeAt(i) - 'A'.charCodeAt(0))
ColumnOf(upperColStr, column) ==
  IF upperColStr = <<>> THEN column
  ELSE ColumnOf(Tail(upperColStr), column * 26 + CharCodeMinusA(upperColStr[1]))

\* the groups of the match: colAbs, colStr, rowAbs, rowStr
Decode(colAbs, colStr, rowAbs, rowStr) ==
  IF colStr = <<>> \/ ~AllDigits(rowStr) THEN Null
  ELSE [col |-> ColumnOf(toUpperCase(colStr), 0),
        row |-> parseInt(rowStr) - 1,
        isAbsoluteCol |-> colAbs,
        isAbsoluteRow |-> rowAbs]

HasDollarAt(ref, i) == i <= Len(ref) /\ ref[i] = "$"

\* the letters start at c0 and end before c1
MatchRow(ref, colAbs, c0, c1) ==
  Decode(colAbs, SubSeq(ref, c0, c1 - 1), HasDollarAt(ref, c1),
         SubSeq(ref, IF HasDollarAt(ref, c1) THEN c1 + 1 ELSE c1, Len(ref)))

MatchLetters(ref, colAbs, c0) == MatchRow(ref, colAbs, c0, LetterRun(ref, c0))

MatchColumn(ref, colAbs) == MatchLetters(ref, colAbs, IF colAbs THEN 2 ELSE 1)

\* ref.match(/^(\$?)([A-Za-z]+)(\$?)(\d+)$/i) and the decoding of its groups
parseCellReference(ref) == MatchColumn(ref, HasDollarAt(ref, 1))

\* the part of getCellValue after the reference is parsed
ReadCell(cellRef, data, tableIndex) ==
  IF cellRef = Null THEN REF
  \* data[tableIndex][row][col] or the read of its fields throws: caught
  ELSE IF ~CellPresent(data, tableIndex, cellRef.row, cellRef.col) THEN REF
  ELSE CellContent(CellAt(data, tableIndex, cellRef.row, cellRef.col))

getCellValue(ref, data, tableIndex) ==
  IF tableIndex >= Len(data) THEN REF
  ELSE ReadCell(parseCellReference(ref), data, tableIndex)

RECURSIVE SplitFrom(_, _, _)
SplitFrom(s, i, cur) ==
  IF i > Len(s) THEN <<cur>>
  ELSE IF s[i] = ":" THEN <<cur>> \o SplitFrom(s, i + 1, <<>>)
  ELSE SplitFrom(s, i + 1, Append(cur, s[i]))

\* s.split(':')
split(s) == SplitFrom(s, 1, <<>>)

Min(a, b) == IF a < b THEN a ELSE b
Max(a, b) == IF a > b THEN a ELSE b

RECURSIVE ColLoop(_, _, _, _, _)
\* the inner for loop of getRangeValues, from col up to maxCol
\* values.push(numValue) when numValue is not NaN
PushNumber(numValue) == IF numValue.t # "nan" THEN <<numValue>> ELSE <<>>

ColLoop(data, tableIndex, row, col, maxCol) ==
  IF col > maxCol THEN <<>>
  ELSE (IF CellPresent(data, tableIndex, row, col)
        THEN PushNumber(Number(CellContent(CellAt(data, tableIndex, row, col))))
        ELSE <<>>)
         \o ColLoop(data, tableIndex, row, col + 1, maxCol)

RECURSIVE RowLoop(_, _, _, _, _, _)
\* the outer for loop of getRangeValues, from row up to maxRow
RowLoop(data, tableIndex, row, maxRow, minCol, maxCol) ==
  IF row > maxRow THEN <<>>
  ELSE ColLoop(data, tableIndex, row, minCol, maxCol)
         \o RowLoop(data, tableIndex, row + 1, maxRow, minCol, maxCol)

\* returns a list of numbers, or null
\* the part of getRangeValues after both ends are parsed
RangeBetween(start, end, data, tableIndex) ==
  IF start = Null \/ end = Null THEN Null
  ELSE List(RowLoop(data, tableIndex,
                    Min(start.row, end.row), Max(start.row, end.row),
                    Min(start.col, end.col), Max(start.col, end.col)))

\* the part of getRangeValues after the split
RangeOfParts(parts, data, tableIndex) ==
  \* endRef is undefined: parseCellReference throws, caught
  IF Len(parts) < 2 THEN Null
  ELSE RangeBetween(parseCellReference(parts[1]), parseCellReference(parts[2]),
                    data, tableIndex)

getRangeValues(range, data, tableIndex) ==
  IF tableIndex >= Len(data) THEN Null
  ELSE RangeOfParts(split(toUpperCase(range)), data, tableIndex)

(***************************************************************************)
(* Function Library: the static helpers of ExcelFunctions, which take the  *)
(* flattened values.                                                       *)
(***************************************************************************)
RECURSIVE SumNumbers(_)
\* numbers.reduce((acc, val) => acc + val, 0)
SumNumbers(numbers) ==
  IF numbers = <<>> THEN Num(0)
  ELSE NumAdd(SumNumbers(SubSeq(numbers, 1, Len(numbers) - 1)), numbers[Len(numbers)])

\* the larger (smaller) of two numbers
Larger(x, y) == IF NumLess(x, y) THEN y ELSE x
Smaller(x, y) == IF NumLess(y, x) THEN y ELSE x

RECURSIVE MathMax(_)
MathMax(numbers) ==
  IF Len(numbers) = 1 THEN numbers[1] ELSE Larger(numbers[1], MathMax(Tail(numbers)))

RECURSIVE MathMin(_)
MathMin(numbers) ==
  IF Len(numbers) = 1 THEN numbers[1] ELSE Smaller(numbers[1], MathMin(Tail(numbers)))

NotNaN(n) == n.t # "nan"
IsNumberValue(v) == TypeofNumber(v) /\ ~isNaN(v)
IsCountable(v) == TypeofNumber(v) \/ (v.t = "str" /\ ~isNaN(v))

\* values.map(v => Number(v)).filter(n => !isNaN(n))
CoercedNumbers(values) == SelectSeq([i \in 1..Len(values) |-> Number(values[i])], NotNaN)

\* sum / numbers.length, or 0 when there is no number
MeanOrZero(numbers) ==
  IF Len(numbers) = 0 THEN Num(0) ELSE NumDiv(SumNumbers(numbers), Num(Len(numbers)))

MaxOrError(numbers) == IF Len(numbers) = 0 THEN ERROR ELSE MathMax(numbers)
MinOrError(numbers) == IF Len(numbers) = 0 THEN ERROR ELSE MathMin(numbers)

StaticAVERAGE(values) ==
  IF Len(values) = 0 THEN Num(0) ELSE MeanOrZero(SelectSeq(values, IsNumberValue))

StaticCOUNT(values) == Num(Len(SelectSeq(values, IsCountable)))

StaticMAX(values) == MaxOrError(CoercedNumbers(values))

StaticMIN(values) == MinOrError(CoercedNumbers(values))

(***************************************************************************)
(* Expression tree.  A node is a record with the field type and the        *)
(* fields of its kind; a null or undefined node is the value Null or       *)
(* Undefined.                                                              *)
(***************************************************************************)
IsNullish(x) == "t" \in DOMAIN x /\ x.t \in {"null", "undef"}

\* node.f, undefined when the property is absent
Field(node, f) == IF f \in DOMAIN node THEN node[f] ELSE Undefined

\* node.f where it is compared with a string: a type tag, an operator, a name
Tag(node, f) == IF f \in DOMAIN node THEN node[f] ELSE "undefined"

\* arg.tableId !== undefined ? arg.tableId : currentTableIndex
EffectiveTable(node, currentTableIndex) ==
  IF "tableId" \in DOMAIN node THEN node.tableId ELSE currentTableIndex

RECURSIVE Flat(_)
\* Array.prototype.flat(): one level
Flat(items) ==
  IF items = <<>> THEN <<>>
  ELSE (IF items[1].t = "list" THEN items[1].items ELSE <<items[1]>>) \o Flat(Tail(items))

FunctionNames == {"SUM", "AVERAGE", "COUNT", "MAX", "MIN"}

(***************************************************************************)
(* ExcelFunctions (the standalone library, instance methods)               *)
(***************************************************************************)
\* the callback of args.map in ExcelFunctions.getFunctionArgValues
LibArgValue(arg, allTables, currentTableIndex) ==
  CASE IsNullish(arg) -> Throw
    [] ~IsNullish(arg) /\ Tag(arg, "type") = "range" ->
         getRangeValues(arg.reference, allTables, EffectiveTable(arg, currentTableIndex))
    [] ~IsNullish(arg) /\ Tag(arg, "type") = "cell" ->
         List(<<getCellValue(arg.reference, allTables, EffectiveTable(arg, currentTableIndex))>>)
    [] ~IsNullish(arg) /\ Tag(arg, "type") = "literal" -> List(<<Field(arg, "value")>>)
    [] OTHER -> Undefined

\* .flat() of the mapped arguments; the callback threw for one of them: Throw
FlatOrThrow(mapped) ==
  IF \E i \in 1..Len(mapped) : mapped[i] = Throw THEN Throw ELSE List(Flat(mapped))

\* a list of values, or Throw
LibGetFunctionArgValues(args, allTables, currentTableIndex) ==
  FlatOrThrow([i \in 1..Len(args) |-> LibArgValue(args[i], allTables, currentTableIndex)])

\* the bodies of the try blocks, given what getFunctionArgValues returned
LibSumOf(values) ==
  IF values = Throw THEN ERROR ELSE SumNumbers(CoercedNumbers(values.items))
LibAverageOf(values) ==
  IF values = Throw THEN ERROR ELSE MeanOrZero(CoercedNumbers(values.items))
LibCountOf(values) ==
  IF values = Throw THEN ERROR ELSE Num(Len(SelectSeq(values.items, IsCountable)))
LibMaxOf(values) ==
  IF values = Throw THEN ERROR ELSE MaxOrError(CoercedNumbers(values.items))
LibMinOf(values) ==
  IF values = Throw THEN ERROR ELSE MinOrError(CoercedNumbers(values.items))

LibSUM(args, allTables, currentTableIndex) ==
  LibSumOf(LibGetFunctionArgValues(args, allTables, currentTableIndex))

LibAVERAGE(args, allTables, currentTableIndex) ==
  LibAverageOf(LibGetFunctionArgValues(args, allTables, currentTableIndex))

LibCOUNT(args, allTables, currentTableIndex) ==
  LibCountOf(LibGetFunctionArgValues(args, allTables, currentTableIndex))

LibMAX(args, allTables, currentTableIndex) ==
  LibMaxOf(LibGetFunctionArgValues(args, allTables, currentTableIndex))

LibMIN(args, allTables, currentTableIndex) ==
  LibMinOf(LibGetFunctionArgValues(args, allTables, currentTableIndex))

\* this.functions[name](args, allTables, currentTableIndex) of ExcelFunctions
LibFunctions(name, args, allTables, currentTableIndex) ==
  CASE name = "SUM" -> LibSUM(args, allTables, currentTableIndex)
    [] name = "AVERAGE" -> LibAVERAGE(args, allTables, currentTableIndex)
    [] name = "COUNT" -> LibCOUNT(args, allTables, currentTableIndex)
    [] name = "MAX" -> LibMAX(args, allTables, currentTableIndex)
    [] name = "MIN" -> LibMIN(args, allTables, currentTableIndex)

(***************************************************************************)
(* Evaluator: FormulaEngine.evaluateAst, the function dispatch table       *)
(* this.functions and FormulaEngine.getFunctionArgValues                   *)
(***************************************************************************)
RECURSIVE evaluateAst(_, _, _)
RECURSIVE evaluateNode(_, _, _)
RECURSIVE EngFunctions(_, _, _, _)

\* the callback of args.map in FormulaEngine.getFunctionArgValues
EngArgValue(arg, allTables, currentTableIndex) ==
  CASE IsNullish(arg) -> Throw
    [] ~IsNullish(arg) /\ Tag(arg, "type") = "range" ->
         getRangeValues(arg.reference, allTables, currentTableIndex)
    [] ~IsNullish(arg) /\ Tag(arg, "type") = "cell" ->
         List(<<getCellValue(arg.reference, allTables, currentTableIndex)>>)
    [] OTHER -> List(<<evaluateAst(arg, allTables, currentTableIndex)>>)

\* a list of values, or Throw
getFunctionArgValues(args, allTables, currentTableIndex) ==
  FlatOrThrow([i \in 1..Len(args) |-> EngArgValue(args[i], allTables, currentTableIndex)])

\* if (values && values.length > 0) sum += values.reduce((acc, val) => acc + val, 0)
AddRange(sum, values) ==
  IF values # Null /\ Len(values.items) > 0 THEN JsAdd(sum, SumNumbers(values.items)) ELSE sum

\* if (!isNaN(numValue)) sum += numValue
AddNumber(sum, numValue) == IF numValue.t # "nan" THEN JsAdd(sum, numValue) ELSE sum

\* one iteration of the for loop of 'SUM': the new value of sum, or Throw
EngSumStep(sum, arg, allTables, currentTableIndex) ==
  CASE IsNullish(arg) -> Throw
    [] ~IsNullish(arg) /\ Tag(arg, "type") = "range" ->
         AddRange(sum, getRangeValues(arg.reference, allTables,
                                      EffectiveTable(arg, currentTableIndex)))
    [] ~IsNullish(arg) /\ Tag(arg, "type") = "cell" ->
         AddNumber(sum, Number(getCellValue(arg.reference, allTables,
                                            EffectiveTable(arg, currentTableIndex))))
    [] ~IsNullish(arg) /\ Tag(arg, "type") = "literal" -> JsAdd(sum, Field(arg, "value"))
    [] OTHER -> sum

RECURSIVE EngSumLoop(_, _, _, _)
EngSumLoop(sum, args, allTables, currentTableIndex) ==
  IF args = <<>> \/ sum = Throw THEN sum
  ELSE EngSumLoop(EngSumStep(sum, args[1], allTables, currentTableIndex),
                  Tail(args), allTables, currentTableIndex)

EngSUM(args, allTables, currentTableIndex) == EngSumLoop(Num(0), args, allTables, currentTableIndex)

\* if (rangeValues) values.push(...rangeValues)
PushRange(rangeValues) == IF rangeValues # Null THEN rangeValues ELSE List(<<>>)

\* one iteration of the for loop of 'AVERAGE': what is pushed on values, or Throw
EngAverageStep(arg, allTables, currentTableIndex) ==
  CASE IsNullish(arg) -> Throw
    [] ~IsNullish(arg) /\ Tag(arg, "type") = "range" ->
         PushRange(getRangeValues(arg.reference, allTables,
                                  EffectiveTable(arg, currentTableIndex)))
    [] ~IsNullish(arg) /\ Tag(arg, "type") = "cell" ->
         List(PushNumber(Number(getCellValue(arg.reference, allTables,
                                             EffectiveTable(arg, currentTableIndex)))))
    [] ~IsNullish(arg) /\ Tag(arg, "type") = "literal" -> List(<<Field(arg, "value")>>)
    [] OTHER -> List(<<>>)

\* ExcelFunctions.AVERAGE(values), or #ERROR! from the catch block
AverageOfPushed(pushed) ==
  IF \E i \in 1..Len(pushed) : pushed[i] = Throw THEN ERROR ELSE StaticAVERAGE(Flat(pushed))

EngAVERAGE(args, allTables, currentTableIndex) ==
  AverageOfPushed([i \in 1..Len(args) |-> EngAverageStep(args[i], allTables, currentTableIndex)])

\* ExcelFunctions.COUNT / MAX / MIN of what getFunctionArgValues returned
CountOf(values) == IF values = Throw THEN Throw ELSE StaticCOUNT(values.items)
MaxOf(values) == IF values = Throw THEN Throw ELSE StaticMAX(values.items)
MinOf(values) == IF values = Throw THEN Throw ELSE StaticMIN(values.items)

EngCOUNT(args, allTables, currentTableIndex) ==
  CountOf(getFunctionArgValues(args, allTables, currentTableIndex))

EngMAX(args, allTables, currentTableIndex) ==
  MaxOf(getFunctionArgValues(args, allTables, currentTableIndex))

EngMIN(args, allTables, currentTableIndex) ==
  MinOf(getFunctionArgValues(args, allTables, currentTableIndex))

\* this.functions[name](args, allTables, currentTableIndex) of FormulaEngine
EngFunctions(name, args, allTables, currentTableIndex) ==
  CASE name = "SUM" -> EngSUM(args, allTables, currentTableIndex)
    [] name = "AVERAGE" -> EngAVERAGE(args, allTables, currentTableIndex)
    [] name = "COUNT" -> EngCOUNT(args, allTables, currentTableIndex)
    [] name = "MAX" -> EngMAX(args, allTables, currentTableIndex)
    [] name = "MIN" -> EngMIN(args, allTables, currentTableIndex)

\* the operator applied to the two coerced operands
ApplyOperator(operator, leftNum, rightNum) ==
  IF leftNum.t = "nan" \/ rightNum.t = "nan" THEN ERROR
  ELSE CASE operator = "+" -> NumAdd(leftNum, rightNum)
         [] operator = "-" -> NumSub(leftNum, rightNum)
         [] operator = "*" -> NumMul(leftNum, rightNum)
         [] operator = "/" -> IF rightNum.n = 0 THEN DIV0 ELSE NumDiv(leftNum, rightNum)
         [] operator = "^" -> NumPow(leftNum, rightNum)
         [] OTHER -> Throw

\* case 'operation'
EvalOperation(ast, allTables, currentTableIndex) ==
  ApplyOperator(Tag(ast, "operator"),
                Number(evaluateAst(Field(ast, "left"), allTables, currentTableIndex)),
                Number(evaluateAst(Field(ast, "right"), allTables, currentTableIndex)))

\* case 'function'
EvalFunction(ast, allTables, currentTableIndex) ==
  IF Tag(ast, "name") \notin FunctionNames THEN Throw
  \* for (const arg of undefined) and undefined.map throw
  ELSE IF "arguments" \notin DOMAIN ast THEN Throw
  ELSE EngFunctions(ast.name, ast.arguments, allTables, currentTableIndex)

\* the switch of evaluateAst
EvalSwitch(type, ast, allTables, currentTableIndex) ==
  CASE type = "operation" -> EvalOperation(ast, allTables, currentTableIndex)
    [] type = "function" -> EvalFunction(ast, allTables, currentTableIndex)
    [] type = "cell" ->
         getCellValue(ast.reference, allTables, EffectiveTable(ast, currentTableIndex))
    [] type = "range" ->
         getRangeValues(ast.reference, allTables, EffectiveTable(ast, currentTableIndex))
    [] type = "literal" -> Field(ast, "value")
    [] OTHER -> Throw

\* catch (error) { return '#ERROR!'; }
CatchError(r) == IF r = Throw THEN ERROR ELSE r

\* the try block of evaluateAst and its catch
evaluateNode(ast, allTables, currentTableIndex) ==
  CatchError(EvalSwitch(Tag(ast, "type"), ast, allTables, currentTableIndex))

\* evaluateAst with its first line changed to: if (!ast) return '#ERROR!'
evaluateAstNullIsError(ast, allTables, currentTableIndex) ==
  IF IsNullish(ast) THEN ERROR ELSE evaluateNode(ast, allTables, currentTableIndex)

\* if (!ast) return null
evaluateAst(ast, allTables, currentTableIndex) ==
  IF IsNullish(ast) THEN Null ELSE evaluateNode(ast, allTables, currentTableIndex)

(***************************************************************************)
(* The parser (FormulaParser.parse), a collaborator consumed through the   *)
(* contract parse(formulaText) -> AST, which throws on a syntax error.     *)
(* Its code is not part of the sources; the formula texts of the model     *)
(* and their trees are listed here.                                        *)
(***************************************************************************)
LiteralNode(v) == [type |-> "literal", value |-> v]
CellNode(ref) == [type |-> "cell", reference |-> ref]
CellNodeIn(ref, t) == [type |-> "cell", reference |-> ref, tableId |-> t]
RangeNode(ref) == [type |-> "range", reference |-> ref]
RangeNodeIn(ref, t) == [type |-> "range", reference |-> ref, tableId |-> t]
OperationNode(o, l, r) == [type |-> "operation", operator |-> o, left |-> l, right |-> r]
FunctionNode(n, a) == [type |-> "function", name |-> n, arguments |-> a]

TextSelf == <<"=", "A", "1">>
TextRefC2 == <<"=", "C", "2", "+", "1">>
TextOnePlusTwo == <<"=", "1", "+", "2">>
TextDivZero == <<"=", "1", "/", "0">>
TextSyntaxError == <<"=", "(">>
TextPlain == <<"x">>

parse(formula) ==
  CASE formula = TextSelf -> CellNode(<<"A", "1">>)
    [] formula = TextRefC2 -> OperationNode("+", CellNode(<<"C", "2">>), LiteralNode(Num(1)))
    [] formula = TextOnePlusTwo -> OperationNode("+", LiteralNode(Num(1)), LiteralNode(Num(2)))
    [] formula = TextDivZero -> OperationNode("/", LiteralNode(Num(1)), LiteralNode(Num(0)))
    [] OTHER -> Throw

(***************************************************************************)
(* FormulaEngine.evaluateFormula.  visited is the caller's Set; the        *)
(* result carries the Set as the call leaves it, and whether the catch     *)
(* block ran.                                                              *)
(***************************************************************************)
startsWithEquals(s) == s # <<>> /\ s[1] = "="

\* `${currentTableIndex}:${formula}`
FormulaKey(formula, currentTableIndex) ==
  NumberToString(Num(currentTableIndex)) \o <<":">> \o formula

\* EvaluateParsed with visited.delete(formulaKey) moved to a finally block
EvaluateParsedFinally(ast, formulaKey, allTables, currentTableIndex, visited) ==
  IF ast = Throw
  THEN [result |-> ERROR, visited |-> (visited \cup {formulaKey}) \ {formulaKey},
        threw |-> TRUE]
  ELSE [result |-> evaluateAst(ast, allTables, currentTableIndex),
        visited |-> (visited \cup {formulaKey}) \ {formulaKey},
        threw |-> FALSE]

\* visited.add(formulaKey) and what follows it, ast being what the parser gave
EvaluateParsed(ast, formulaKey, allTables, currentTableIndex, visited) ==
  IF ast = Throw
  THEN [result |-> ERROR, visited |-> visited \cup {formulaKey}, threw |-> TRUE]
  ELSE [result |-> evaluateAst(ast, allTables, currentTableIndex),
        visited |-> (visited \cup {formulaKey}) \ {formulaKey},
        threw |-> FALSE]

\* the part of evaluateFormula after the key is computed
EvaluateKeyed(formula, formulaKey, allTables, currentTableIndex, visited) ==
  IF formulaKey \in visited
  THEN [result |-> CIRCULAR, visited |-> visited, threw |-> FALSE]
  ELSE EvaluateParsed(parse(formula), formulaKey, allTables, currentTableIndex, visited)

evaluateFormula(formula, allTables, currentTableIndex, visited) ==
  IF ~startsWithEquals(formula)
  THEN [result |-> Str(formula), visited |-> visited, threw |-> FALSE]
  ELSE EvaluateKeyed(formula, FormulaKey(formula, currentTableIndex),
                     allTables, currentTableIndex, visited)

\* FormulaEngine._convertToNumber
_convertToNumber(value) ==
  IF value.t = "str" /\ ~isNaN(value) /\ trim(value.s) # <<>> THEN Number(value) ELSE value

(***************************************************************************)
(* FormulaEngine.processData, one cell at a time.  The cells of the model  *)
(* carry no excelFormat, so the formatter is never called.                 *)
(***************************************************************************)
RECURSIVE CoordsOfRow(_, _, _, _)
CoordsOfRow(data, t, r, c) ==
  IF ~HasIndex(At(At(data, t), r), c) THEN <<>>
  ELSE <<<<t, r, c>>>> \o CoordsOfRow(data, t, r, c + 1)

RECURSIVE CoordsOfTable(_, _, _)
CoordsOfTable(data, t, r) ==
  IF ~HasIndex(At(data, t), r) THEN <<>>
  ELSE CoordsOfRow(data, t, r, 0) \o CoordsOfTable(data, t, r + 1)

RECURSIVE CoordsFrom(_, _)
CoordsFrom(data, t) ==
  IF ~HasIndex(data, t) THEN <<>> ELSE CoordsOfTable(data, t, 0) \o CoordsFrom(data, t + 1)

\* the cells in the order the nested forEach loops visit them
Coords(data) == CoordsFrom(data, 0)

IsFormulaCell(cell) == cell.value.t = "str" /\ startsWithEquals(cell.value.s)

\* the body of the innermost forEach callback: the cell as it is left
\* the cell once resolvedValue is known
Resolved(cell, resolvedValue) ==
  [value |-> cell.value,
   resolved |-> TRUE,
   resolvedValue |-> resolvedValue,
   displayValue |-> Str(JsString(resolvedValue))]

ProcessedCell(cell, allTables, tableIndex) ==
  IF IsFormulaCell(cell)
  THEN Resolved(cell,
                _convertToNumber(evaluateFormula(cell.value.s, allTables, tableIndex, {}).result))
  ELSE Resolved(cell, cell.value)

SetCell(data, t, r, c, cell) == [data EXCEPT ![t + 1][r + 1][c + 1] = cell]

(***************************************************************************)
(* Inputs: the workbooks handed to the engine and the arguments of the     *)
(* calls made on it.                                                       *)
(***************************************************************************)
MaxPasses == 2
MaxCalls == 3
MaxArgs == 2
MaxTableIndex == 2
MaxCurrentTable == 1

Cell(v) == [value |-> v]

\* two tables; table 0 has a row of mixed values, a formula that refers to a
\* formula cell later in the pass (A2 -> C2), one that refers to it earlier in
\* the pass (A3 -> C2), and a ragged last row
WorkbookMixed ==
  << << <<Cell(Num(1)), Cell(Str(<<"x">>)), Cell(Num(3))>>,
        <<Cell(Str(TextRefC2)), Cell(Str(<<"7">>)), Cell(Str(TextOnePlusTwo))>>,
        <<Cell(Str(TextRefC2))>> >>,
     << <<Cell(Num(4)), Cell(Str(TextSyntaxError))>>,
        <<Cell(Str(<<"5">>))>> >> >>

\* one table whose cell A1 is the formula =A1, and an empty row
WorkbookSelf ==
  << << <<Cell(Str(TextSelf)), Cell(Num(2))>>,
        <<>> >> >>

Workbooks == {WorkbookMixed, WorkbookSelf}

FormulaTexts == {TextSelf, TextOnePlusTwo, TextDivZero, TextSyntaxError, TextPlain}

TableIndices == (-1)..MaxTableIndex
CurrentTables == 0..MaxCurrentTable

RefTexts ==
  { <<"A", "1">>, <<"Z", "1">>, <<"A", "A", "1">>, <<"A", "B", "1">>, <<"B", "A", "1">>,
    <<"$", "b", "$", "2">>, <<"C", "2">>, <<"Z", "9">>, <<"A", "0">>,
    <<"1", "A">>, <<"A">>, <<"$">>, <<>> }

RangeTexts ==
  { <<"A", "1", ":", "C", "1">>, <<"C", "1", ":", "A", "1">>, <<"b", "2", ":", "A", "1">>,
    <<"A", "1", ":", "Z">>, <<"A", "1">>, <<":">> }

RangeA1C1 == <<"A", "1", ":", "C", "1">>
RangeA1B2 == <<"A", "1", ":", "B", "2">>
RangeA1A1 == <<"A", "1", ":", "A", "1">>
RangeMalformed == <<"A", "1", ":", "Z">>

\* the argument nodes of the function calls
ArgNodes ==
  { RangeNode(RangeA1C1), RangeNodeIn(RangeA1B2, 1), RangeNode(RangeMalformed),
    RangeNodeIn(RangeA1C1, 2), CellNodeIn(<<"A", "1">>, 1), CellNode(<<"B", "1">>),
    LiteralNode(Num(3)), LiteralNode(Str(<<"x">>)) }

ArgLists == UNION {[1..k -> ArgNodes] : k \in 0..MaxArgs}

Operators == {"+", "-", "*", "/", "^", "%"}

\* the children of the operation nodes; Undefined is a missing child
Operands ==
  { LiteralNode(Num(2)), LiteralNode(Num(0)), LiteralNode(Str(<<"x">>)),
    CellNode(<<"A", "1">>), CellNodeIn(<<"A", "1">>, 1), RangeNodeIn(RangeA1A1, 1),
    Undefined }

TopRefs == {<<"A", "1">>, <<"B", "1">>, <<"Z", "9">>, <<"1", "A">>}
TopRanges == {RangeA1C1, <<"C", "1", ":", "A", "1">>, RangeMalformed, <<"A", "1">>}

LeafNodes ==
  {LiteralNode(Num(3)), LiteralNode(Str(<<"x">>)), [type |-> "literal"]}
    \cup {CellNode(r) : r \in TopRefs}
    \cup {CellNodeIn(r, t) : r \in TopRefs, t \in 0..MaxTableIndex}
    \cup {RangeNode(r) : r \in TopRanges}
    \cup {RangeNodeIn(r, t) : r \in TopRanges, t \in 0..MaxTableIndex}

OperationNodes == {OperationNode(o, l, r) : o \in Operators, l \in Operands, r \in Operands}

FunctionNodes ==
  {FunctionNode(n, a) : n \in FunctionNames \cup {"MEDIAN"}, a \in ArgLists}

\* a null node, an undefined node, a node of an unknown type, a node with no type
OddNodes == {Null, Undefined, [type |-> "bogus"], [value |-> Num(1)]}

AstInputs == OddNodes \cup LeafNodes \cup OperationNodes \cup FunctionNodes

(***************************************************************************)
(* State                                                                   *)
(***************************************************************************)
VARIABLES
  tables,     \* the workbook, mutated in place by processData
  formulas,   \* result.formulas of the processData call in progress or last made
  pc,         \* "idle", "processing" (inside processData), "formulas", "returned"
  pos,        \* processData: the index in Coords(tables) of the next cell
  passes,     \* the number of completed processData calls
  visited,    \* the Set the caller passes to its evaluateFormula calls
  calls,      \* the number of evaluateFormula calls made
  lastCall    \* the last call made, its arguments and what it returned

vars == <<tables, formulas, pc, pos, passes, visited, calls, lastCall>>

Init ==
  /\ tables \in Workbooks
  /\ formulas = <<>>
  /\ pc = "idle"
  /\ pos = 1
  /\ passes = 0
  /\ visited = {}
  /\ calls = 0
  /\ lastCall = [op |-> "none"]

(***************************************************************************)
(* processData                                                             *)
(***************************************************************************)
\* processData(data) is entered: result = {tables: data, formulas: []}
StartProcessData ==
  /\ pc = "idle"
  /\ passes < MaxPasses
  /\ pc' = "processing"
  /\ pos' = 1
  /\ formulas' = <<>>
  /\ lastCall' = [op |-> "processData"]
  /\ UNCHANGED <<tables, passes, visited, calls>>

\* {table: tableIndex, row: rowIndex, col: colIndex, ...cell}
FormulaEntry(at, cell) ==
  [table |-> at[1], row |-> at[2], col |-> at[3],
   value |-> cell.value,
   resolved |-> cell.resolved,
   resolvedValue |-> cell.resolvedValue,
   displayValue |-> cell.displayValue]

\* one run of the callback of rows.forEach
ProcessCell ==
  /\ pc = "processing"
  /\ pos <= Len(Coords(tables))
  /\ \E at \in {Coords(tables)[pos]} :
       \E done \in {ProcessedCell(CellAt(tables, at[1], at[2], at[3]), tables, at[1])} :
         /\ tables' = SetCell(tables, at[1], at[2], at[3], done)
         /\ formulas' = IF IsFormulaCell(done)
                        THEN Append(formulas, FormulaEntry(at, done))
                        ELSE formulas
  /\ pos' = pos + 1
  /\ UNCHANGED <<pc, passes, visited, calls, lastCall>>

\* return result
FinishProcessData ==
  /\ pc = "processing"
  /\ pos > Len(Coords(tables))
  /\ pc' = "idle"
  /\ passes' = passes + 1
  /\ UNCHANGED <<tables, formulas, pos, visited, calls, lastCall>>

(***************************************************************************)
(* Calls on the engine and on the library                                  *)
(***************************************************************************)
\* evaluateFormula(formula, tables, currentTableIndex, visited), the caller
\* passing the same Set to each call
EvaluateFormula ==
  /\ pc \in {"idle", "formulas"}
  /\ calls < MaxCalls
  /\ \E formula \in FormulaTexts, currentTableIndex \in CurrentTables :
       \E r \in {evaluateFormula(formula, tables, currentTableIndex, visited)} :
           /\ visited' = r.visited
           /\ lastCall' = [op |-> "evaluateFormula", formula |-> formula,
                           currentTableIndex |-> currentTableIndex,
                           visitedBefore |-> visited,
                           result |-> r.result, threw |-> r.threw]
  /\ pc' = "formulas"
  /\ calls' = calls + 1
  /\ UNCHANGED <<tables, formulas, pos, passes>>

EvaluateAst ==
  /\ pc = "idle"
  /\ \E ast \in AstInputs, currentTableIndex \in CurrentTables :
       lastCall' = [op |-> "evaluateAst", ast |-> ast,
                    currentTableIndex |-> currentTableIndex,
                    result |-> evaluateAst(ast, tables, currentTableIndex)]
  /\ pc' = "returned"
  /\ UNCHANGED <<tables, formulas, pos, passes, visited, calls>>

\* a call of one of the functions of the standalone library
LibraryFunction ==
  /\ pc = "idle"
  /\ \E name \in FunctionNames, args \in ArgLists, currentTableIndex \in CurrentTables :
       lastCall' = [op |-> "ExcelFunctions", name |-> name, args |-> args,
                    currentTableIndex |-> currentTableIndex,
                    result |-> LibFunctions(name, args, tables, currentTableIndex)]
  /\ pc' = "returned"
  /\ UNCHANGED <<tables, formulas, pos, passes, visited, calls>>

GetCellValue ==
  /\ pc = "idle"
  /\ \E ref \in RefTexts, tableIndex \in TableIndices :
       lastCall' = [op |-> "getCellValue", ref |-> ref, tableIndex |-> tableIndex,
                    result |-> getCellValue(ref, tables, tableIndex)]
  /\ pc' = "returned"
  /\ UNCHANGED <<tables, formulas, pos, passes, visited, calls>>

GetRangeValues ==
  /\ pc = "idle"
  /\ \E range \in RangeTexts, tableIndex \in TableIndices :
       lastCall' = [op |-> "getRangeValues", range |-> range, tableIndex |-> tableIndex,
                    result |-> getRangeValues(range, tables, tableIndex)]
  /\ pc' = "returned"
  /\ UNCHANGED <<tables, formulas, pos, passes, visited, calls>>

ParseCellReference ==
  /\ pc = "idle"
  /\ \E ref \in RefTexts :
       lastCall' = [op |-> "parseCellReference", ref |-> ref,
                    result |-> parseCellReference(ref)]
  /\ pc' = "returned"
  /\ UNCHANGED <<tables, formulas, pos, passes, visited, calls>>

Next ==
  \/ StartProcessData
  \/ ProcessCell
  \/ FinishProcessData
  \/ EvaluateFormula
  \/ EvaluateAst
  \/ LibraryFunction
  \/ GetCellValue
  \/ GetRangeValues
  \/ ParseCellReference

Spec == Init /\ [][Next]_vars

TypeOK ==
  /\ pc \in {"idle", "processing", "formulas", "returned"}
  /\ passes \in 0..MaxPasses
  /\ calls \in 0..MaxCalls

(***************************************************************************)
(* Properties                                                              *)
(***************************************************************************)
Resolving == pc = "idle" /\ passes >= 1
IsEvaluateAst == lastCall.op = "evaluateAst"
IsFunctionCall(names) ==
  /\ lastCall.op = "evaluateAst"
  /\ ~IsNullish(lastCall.ast)
  /\ Tag(lastCall.ast, "type") = "function"
  /\ lastCall.ast.name \in names

\* the numeric-coercible values an argument stands for: a range gives the numbers
\* of its cells in the table it names, a cell or a literal its value if numeric
NumericValuesOf(arg, data, currentTableIndex) ==
  CASE arg.type = "range" ->
         PushRange(getRangeValues(arg.reference, data,
                                  EffectiveTable(arg, currentTableIndex))).items
    [] arg.type = "cell" ->
         PushNumber(Number(getCellValue(arg.reference, data,
                                        EffectiveTable(arg, currentTableIndex))))
    [] arg.type = "literal" -> PushNumber(Number(arg.value))

RECURSIVE NumericValues(_, _, _)
NumericValues(args, data, currentTableIndex) ==
  IF args = <<>> THEN <<>>
  ELSE NumericValuesOf(args[1], data, currentTableIndex)
         \o NumericValues(Tail(args), data, currentTableIndex)

RECURSIVE RefsExplicit(_)
\* every cell and range node of the tree carries a tableId
RefsExplicit(node) ==
  CASE IsNullish(node) -> TRUE
    [] ~IsNullish(node) /\ Tag(node, "type") \in {"cell", "range"} -> "tableId" \in DOMAIN node
    [] ~IsNullish(node) /\ Tag(node, "type") = "operation" ->
         RefsExplicit(node.left) /\ RefsExplicit(node.right)
    [] ~IsNullish(node) /\ Tag(node, "type") = "function" ->
         \A i \in 1..Len(node.arguments) : RefsExplicit(node.arguments[i])
    [] OTHER -> TRUE

\* C1: once processData has resolved a workbook whose cell at table 0, row 0,
\* column 0 has the raw value "=A1", the resolved value of that cell is #CIRCULAR!.
C1_SelfReferenceIsCircular ==
  (Resolving /\ CellPresent(tables, 0, 0, 0) /\ CellAt(tables, 0, 0, 0).value = Str(TextSelf))
    => CellAt(tables, 0, 0, 0).resolvedValue = CIRCULAR

\* C2: the value of a tree all of whose cell and range nodes carry an explicit
\* tableId is the same whatever currentTableIndex the caller passes.
C2_ExplicitTableWins ==
  (IsEvaluateAst /\ RefsExplicit(lastCall.ast))
    => \A c \in CurrentTables : evaluateAst(lastCall.ast, tables, c) = lastCall.result

\* C3: after a processData pass, two formula cells of one table with the same
\* formula text have the same resolved value, whether the formula cell they
\* refer to comes before or after them in the pass.
C3_OrderIndependent ==
  Resolving =>
    \A i, j \in 1..Len(Coords(tables)) :
      LET a == Coords(tables)[i]
          b == Coords(tables)[j]
          f == CellAt(tables, a[1], a[2], a[3])
          g == CellAt(tables, b[1], b[2], b[3])
      IN  (a[1] = b[1] /\ IsFormulaCell(f) /\ f.value = g.value)
            => f.resolvedValue = g.resolvedValue

\* C4: parseCellReference decodes the column letters A, Z, AA, AB to the
\* columns 0, 25, 26, 27.
C4_ColumnDecoding ==
  lastCall.op = "parseCellReference" =>
    /\ lastCall.ref = <<"A", "1">> => lastCall.result.col = 0
    /\ lastCall.ref = <<"Z", "1">> => lastCall.result.col = 25
    /\ lastCall.ref = <<"A", "A", "1">> => lastCall.result.col = 26
    /\ lastCall.ref = <<"A", "B", "1">> => lastCall.result.col = 27

\* C5: for a table index outside 0 .. workbook.length - 1, negative or too
\* large, getCellValue returns #REF! and getRangeValues returns null.
C5_TableOutOfBounds ==
  /\ (lastCall.op = "getCellValue" /\ ~HasIndex(tables, lastCall.tableIndex))
       => lastCall.result = REF
  /\ (lastCall.op = "getRangeValues" /\ ~HasIndex(tables, lastCall.tableIndex))
       => lastCall.result = Null

\* C6: SUM evaluated through the evaluator is the arithmetic sum of the
\* numeric-coercible values of its range, cell and literal arguments.
C6_SumSkipsNonNumeric ==
  IsFunctionCall({"SUM"}) =>
    lastCall.result = SumNumbers(NumericValues(lastCall.ast.arguments, tables,
                                               lastCall.currentTableIndex))

\* C7: when the arguments stand for no numeric value at all, MAX and MIN
\* evaluated through the evaluator return #ERROR! and AVERAGE returns 0.
C7_EmptyNumericSubset ==
  (/\ IsFunctionCall({"MAX", "MIN", "AVERAGE"})
   /\ NumericValues(lastCall.ast.arguments, tables, lastCall.currentTableIndex) = <<>>)
    => lastCall.result = IF lastCall.ast.name = "AVERAGE" THEN Num(0) ELSE ERROR

\* C8: a function of the evaluator's dispatch table returns what the function
\* of the same name of the standalone library returns on the same arguments.
C8_SameAsLibrary ==
  IsFunctionCall(FunctionNames) =>
    lastCall.result = LibFunctions(lastCall.ast.name, lastCall.ast.arguments, tables,
                                   lastCall.currentTableIndex)

UnknownTag(node) ==
  ~IsNullish(node)
    /\ Tag(node, "type") \notin {"literal", "cell", "range", "function", "operation"}

MissingChild(node) ==
  /\ ~IsNullish(node)
  /\ Tag(node, "type") = "operation"
  /\ (IsNullish(node.left) \/ IsNullish(node.right))

\* the operation node with literal 0 in the place of each missing child
ZeroForMissing(node) ==
  [node EXCEPT !.left = IF IsNullish(@) THEN LiteralNode(Num(0)) ELSE @,
               !.right = IF IsNullish(@) THEN LiteralNode(Num(0)) ELSE @]

\* C9 as stated: evaluateAst returns #ERROR! for a null or absent node, for a
\* node of an unknown type, and for an operation with a missing child.
C9_NullNodeIsError ==
  (IsEvaluateAst
     /\ (IsNullish(lastCall.ast) \/ UnknownTag(lastCall.ast) \/ MissingChild(lastCall.ast)))
    => lastCall.result = ERROR

\* C9 amended: evaluateAst returns null for a null or absent node and #ERROR!
\* for a node of an unknown type; a missing child of an operation evaluates to
\* null, which counts as 0, so the operation returns what it returns with the
\* literal 0 in the child's place.
C9_NullNodeIsNull ==
  IsEvaluateAst =>
    /\ IsNullish(lastCall.ast) => lastCall.result = Null
    /\ UnknownTag(lastCall.ast) => lastCall.result = ERROR
    /\ MissingChild(lastCall.ast) =>
         lastCall.result = evaluateAst(ZeroForMissing(lastCall.ast), tables,
                                       lastCall.currentTableIndex)

\* an evaluateAst call on 2 + <missing child> that returned 2
C9_Witness ==
  /\ IsEvaluateAst
  /\ MissingChild(lastCall.ast)
  /\ lastCall.ast.left = LiteralNode(Num(2))
  /\ lastCall.ast.operator = "+"
  /\ lastCall.result = Num(2)

\* C10: an evaluateFormula call that returns through normal evaluation leaves
\* the in-progress set as it found it; a call in which the parser threw returns
\* #ERROR! and leaves its key in the set; and a call whose key is in the set it
\* is given returns #CIRCULAR!.
C10_KeyRemovedOnlyOnSuccess ==
  [][(lastCall'.op = "evaluateFormula" /\ calls' = calls + 1) =>
       /\ ~lastCall'.threw => visited' = visited
       /\ lastCall'.threw =>
            /\ lastCall'.result = ERROR
            /\ FormulaKey(lastCall'.formula, lastCall'.currentTableIndex) \in visited'
       /\ FormulaKey(lastCall'.formula, lastCall'.currentTableIndex) \in visited =>
            lastCall'.result = CIRCULAR]_vars

\* an evaluateFormula call that returned #CIRCULAR! for the formula "=(", whose
\* key an earlier call, in which the parser threw, had left in the set
C10_Witness ==
  /\ lastCall.op = "evaluateFormula"
  /\ lastCall.formula = TextSyntaxError
  /\ FormulaKey(lastCall.formula, lastCall.currentTableIndex) \in lastCall.visitedBefore
  /\ lastCall.result = CIRCULAR

====
